---- MODULE Spec2Model ----
(***************************************************************************)
(* Model of the dashboard's temporal orchestration engine:                 *)
(* DashboardProvider (src/src/context/DashboardContext.tsx) together with  *)
(* the pages that read its context.                                        *)
(*                                                                         *)
(* The React component is modelled as a state record (the useState and     *)
(* useRef cells, the Next.js route, the pending router.push, the pending   *)
(* timers and the fetches in flight).  Every handler is a function from    *)
(* state record to state record; an action applies one handler and then    *)
(* re-runs the effects whose dependencies changed until nothing changes,   *)
(* as React does after a commit.                                           *)
(*                                                                         *)
(* Time is the wall clock in whole seconds since midnight.  A timer set    *)
(* during one second is due in the next second.                            *)
(*                                                                         *)
(* Three further parts of the repository are modelled next to it, each in  *)
(* a variable of its own and with a specification of its own: the          *)
(* overlay-based revision of the dashboard (src/src/components), the cache *)
(* of the API route GET /api/sales, and the route's transformData.         *)
(***************************************************************************)
EXTENDS Integers, Sequences, FiniteSets, TLC

VARIABLES
    now,                       \* wall clock, seconds since midnight (new Date())
    mounted,                   \* the provider's effects have run once
    tickDue,                   \* the setInterval of the scheduler fired for this second
    pathname,                  \* usePathname()
    nav,                       \* target of a router.push not yet committed
    navAge,                    \* seconds the pending router.push has been waiting
    data,                      \* useState<BranchData[]>
    latestInterval,            \* useState<LatestIntervalData | null>
    metric,                    \* useState<MetricType>
    loadState,                 \* useState<LoadState>
    error,                     \* useState<string | null>
    pendingData,               \* useState<BranchData[] | null>
    pendingLatestInterval,     \* useState<LatestIntervalData | null>
    incomingCountdown,         \* useState(INCOMING_COUNTDOWN_SECONDS)
    viewSecondsRemaining,      \* useState(VIEW_DISPLAY_SECONDS)
    nextUpdateCountdown,       \* useState(getSecondsUntilNextUpdate)
    hasPreloadedForInterval,   \* useRef<string | null>
    isInitialLoad,             \* useRef(true)
    incomingTimer,             \* the setTimeout of the incoming countdown effect
    viewTimer,                 \* viewTimerRef: the setTimeout of the view timer effect
    inflight,                  \* fetchSalesData() calls not yet settled
    fetchSeq,                  \* number of fetchSalesData() calls issued so far
    preloadLog,                \* history: interval keys for which loadData(true) was called
    reveals,                   \* history: number of clock-driven reveals fired by tick
    ticksThisSecond,           \* history: runs of tick() within the current second
    readout,                   \* what the clock helpers returned when last called
    DEV_FORCE_VIEW,            \* the build's DEV TOGGLE: a route path, or null
    overlay,                   \* the cells of the overlay-based revision
    server,                    \* the API route: its cache and its queries under way
    chart                      \* rows handed to transformData and what it returned

vars == <<now, mounted, tickDue, pathname, nav, navAge, data, latestInterval, metric,
          loadState, error, pendingData, pendingLatestInterval,
          incomingCountdown, viewSecondsRemaining, nextUpdateCountdown,
          hasPreloadedForInterval, isInitialLoad, incomingTimer, viewTimer,
          inflight, fetchSeq, preloadLog, reveals, ticksThisSecond, readout,
          DEV_FORCE_VIEW, overlay, server,
                   chart>>

----------------------------------------------------------------------------
(* Program constants *)

VIEW_DISPLAY_SECONDS == 30

INCOMING_COUNTDOWN_SECONDS == 10

\* AnticipationContext.tsx: the overlay's countdown
COUNTDOWN_SECONDS == 10

\* Dashboard.tsx: seconds each summary view of the overlay-based revision stays
DASHBOARD_VIEW_DISPLAY_SECONDS == 25

(* Bounds of the model *)

\* seconds after the first bucket boundary at which the run ends
Horizon == 733

\* second of the bucket after which an idle dashboard is no longer followed
\* second by second ...
QuietFrom == 133

\* ... until this many seconds before the next bucket boundary
QuietLead == 2

\* seconds a router.push may take to change the route
MaxNavLag == 0

\* seconds a router.push to a slow route may take to change the pathname
SlowNavLag == 1

\* seconds for which the clock helpers are followed from each start
ClockSpan == 1230

\* seconds after the first bucket boundary that the overlay-based revision is
\* followed for
OverlayHorizon == 150

\* GET requests that reach the API route
MaxRequests == 3

\* seconds the API route is followed for, across the boundary of 14:10
ServerSpan == 3

\* the largest number of orders in a row handed to transformData
MaxOrders == 2

\* seconds around the boundary of 14:10 at which transformData may be called
ChartSpan == 2

----------------------------------------------------------------------------
(* Values *)

Routes == {"/", "/incoming", "/interval", "/cumulative"}

NoNav == "none"

Metrics == {"gmv", "orders"}

\* dashboardConfig.metric of the server answering /api/sales; with "gmv", the
\* client's initial value, the metric cell would never change
ServerMetric == "orders"

NoKey == <<>>

NullData == [id |-> -1, branches |-> <<>>]

EmptyData == [id |-> 0, branches |-> <<>>]

NullInterval == 0

NoError == "null"

\* no response: preloadedData = null, data = []
NullResponse == 0

\* DEV_FORCE_VIEW = null
NoForce == "null"

----------------------------------------------------------------------------
(* The wall clock: Date.getHours / getMinutes / getSeconds of an instant *)

HMS(h, m, s) == h * 3600 + m * 60 + s

Hours(t) == (t \div 3600) % 24

Minutes(t) == (t \div 60) % 60

Seconds(t) == t % 60

MinuteInInterval(t) == Minutes(t) % 10

IntervalStart(t) == (Minutes(t) \div 10) * 10

\* a key made of the hour alone
CurrentIntervalKeyHourOnly(t) == <<Hours(t), 0>>

\* `${now.getHours()}:${intervalStart}`: the two numbers joined by a colon
CurrentIntervalKey(t) == <<Hours(t), IntervalStart(t)>>

\* a readout that aims at minute 0 of the next bucket
getSecondsUntilNextBucket(t) ==
    LET minuteInInterval == MinuteInInterval(t)
        minutesUntilNext == 10 - minuteInInterval
    IN  minutesUntilNext * 60 - Seconds(t)

getSecondsUntilNextUpdate(t) ==
    LET minuteInInterval == MinuteInInterval(t)
        minutesUntilNext ==
            IF minuteInInterval = 0 THEN 1
            ELSE IF minuteInInterval >= 1 THEN 11 - minuteInInterval
            ELSE 1 - minuteInInterval
    IN  minutesUntilNext * 60 - Seconds(t)

\* getSecondsUntilNextInterval of lib/data.ts
getSecondsUntilNextInterval(t) ==
    LET minuteInInterval == Minutes(t) % 10
        minutesUntilNext ==
            IF minuteInInterval = 0 THEN 1
            ELSE IF minuteInInterval >= 1 THEN 11 - minuteInInterval
            ELSE 1 - minuteInInterval
        secondsUntilNext == minutesUntilNext * 60 - Seconds(t)
    IN  secondsUntilNext

\* a cutoff that keeps the seconds of now
SetSecondsKept(t) == t

\* Date.setSeconds(0, 0)
SetSecondsZero(t) == t - Seconds(t)

\* Date.setMinutes(m)
SetMinutes(t, m) == t - Minutes(t) * 60 + m * 60

\* Date.setHours(h): an hour of -1 is 23:00 of the day before
SetHours(t, h) == t - Hours(t) * 3600 + h * 3600

\* getIntervalCutoffTime of lib/data.ts
getIntervalCutoffTime(t) ==
    LET currentIntervalStart == (Minutes(t) \div 10) * 10
        cutoff == SetSecondsZero(t)
    IN  IF currentIntervalStart >= 10
        THEN SetMinutes(cutoff, currentIntervalStart - 10)
        ELSE SetMinutes(SetHours(cutoff, Hours(cutoff) - 1), 50)

\* getIntervalCutoffTime of the /api/sales route
getIntervalCutoffTimeServer(t) ==
    LET currentIntervalStart == (Minutes(t) \div 10) * 10
        cutoff == SetSecondsZero(t)
    IN  SetMinutes(cutoff, currentIntervalStart)

\* what the helpers return when called at instant t
ReadAt(t) ==
    [at |-> t,
     secondsUntilNextUpdate |-> getSecondsUntilNextUpdate(t),
     secondsUntilNextInterval |-> getSecondsUntilNextInterval(t),
     key |-> CurrentIntervalKey(t),
     cutoff |-> getIntervalCutoffTime(t),
     serverCutoff |-> getIntervalCutoffTimeServer(t)]

\* no helper has been called yet
NoReadout ==
    [at |-> -1, secondsUntilNextUpdate |-> 0, secondsUntilNextInterval |-> 0,
     key |-> NoKey, cutoff |-> 0, serverCutoff |-> 0]

\* seconds elapsed since the start of the ten-minute bucket that holds t
SecondInBucket(t) == MinuteInInterval(t) * 60 + Seconds(t)

----------------------------------------------------------------------------
(* sortBranchData: a copy of the array sorted with 'cdon' first and the     *)
(* other branches by name                                                   *)

LocaleRank(b) == IF b = "cdon" THEN 1 ELSE 2

\* the comparator's result for (a, b) is negative or zero
ComesFirst(a, b) ==
    IF a = "cdon" THEN TRUE
    ELSE IF b = "cdon" THEN FALSE
    ELSE LocaleRank(a) <= LocaleRank(b)

RECURSIVE InsertSorted(_, _)
InsertSorted(b, sorted) ==
    IF sorted = <<>> THEN <<b>>
    ELSE IF ComesFirst(b, Head(sorted)) THEN <<b>> \o sorted
    ELSE <<Head(sorted)>> \o InsertSorted(b, Tail(sorted))

RECURSIVE sortBranchData(_)
sortBranchData(branches) ==
    IF branches = <<>> THEN <<>>
    ELSE InsertSorted(Head(branches), sortBranchData(Tail(branches)))

----------------------------------------------------------------------------
(* The state record the handlers work on *)

St ==
    [pathname |-> pathname, nav |-> nav, data |-> data,
     latestInterval |-> latestInterval, metric |-> metric,
     loadState |-> loadState, error |-> error, pendingData |-> pendingData,
     pendingLatestInterval |-> pendingLatestInterval,
     incomingCountdown |-> incomingCountdown,
     viewSecondsRemaining |-> viewSecondsRemaining,
     nextUpdateCountdown |-> nextUpdateCountdown,
     hasPreloadedForInterval |-> hasPreloadedForInterval,
     isInitialLoad |-> isInitialLoad, incomingTimer |-> incomingTimer,
     viewTimer |-> viewTimer, inflight |-> inflight, fetchSeq |-> fetchSeq,
     preloadLog |-> preloadLog, reveals |-> reveals,
     ticksThisSecond |-> ticksThisSecond]

Install(r) ==
    /\ pathname' = r.pathname
    /\ nav' = r.nav
    /\ navAge' = IF r.nav = NoNav \/ r.nav # nav THEN 0 ELSE navAge
    /\ data' = r.data
    /\ latestInterval' = r.latestInterval
    /\ metric' = r.metric
    /\ loadState' = r.loadState
    /\ error' = r.error
    /\ pendingData' = r.pendingData
    /\ pendingLatestInterval' = r.pendingLatestInterval
    /\ incomingCountdown' = r.incomingCountdown
    /\ viewSecondsRemaining' = r.viewSecondsRemaining
    /\ nextUpdateCountdown' = r.nextUpdateCountdown
    /\ hasPreloadedForInterval' = r.hasPreloadedForInterval
    /\ isInitialLoad' = r.isInitialLoad
    /\ incomingTimer' = r.incomingTimer
    /\ viewTimer' = r.viewTimer
    /\ inflight' = r.inflight
    /\ fetchSeq' = r.fetchSeq
    /\ preloadLog' = r.preloadLog
    /\ reveals' = r.reveals
    /\ ticksThisSecond' = r.ticksThisSecond

----------------------------------------------------------------------------
(* loadData, split at its await *)

\* what a successful GET /api/sales can carry: the branches in either order,
\* the interval summary or null (no row at the cutoff bucket), the server's
\* metric
Responses ==
    [branches : {<<"cdon", "fyndiq">>, <<"fyndiq", "cdon">>},
     hasInterval : BOOLEAN, metric : {ServerMetric}]

\* up to the await: setLoadState('loading'); fetchSalesData()
LoadDataStart(r, staged) ==
    [r EXCEPT !.loadState = "loading",
              !.fetchSeq = r.fetchSeq + 1,
              !.inflight = r.inflight \cup {[id |-> r.fetchSeq + 1, staged |-> staged]}]

\* after the await, the promise fulfilled with resp
LoadDataResolve(r, f, resp) ==
    LET sortedData == [id |-> f.id, branches |-> sortBranchData(resp.branches)]
        interval == IF resp.hasInterval THEN f.id ELSE NullInterval
        stored ==
            IF f.staged
            THEN [r EXCEPT !.pendingData = sortedData,
                           !.pendingLatestInterval = interval]
            ELSE [r EXCEPT !.data = sortedData,
                           !.latestInterval = interval]
    IN  [stored EXCEPT !.metric = resp.metric,
                       !.error = NoError,
                       !.loadState = "loaded",
                       !.isInitialLoad = FALSE,
                       !.inflight = r.inflight \ {f}]

\* the ways a call of fetchSalesData() fails: fetch() itself rejects; the
\* response is not ok and its JSON body carries the server's error message;
\* the response is not ok and its body is not JSON
FetchFailures == {"network error", "not ok", "unparsable body"}

\* the message of the Error that fetchSalesData() throws
fetchSalesDataThrows(kind) ==
    IF kind = "network error" THEN "Failed to fetch"
    ELSE IF kind = "not ok" THEN "An unknown error occurred"
    ELSE "Unexpected token"

\* a catch block that also drops what was staged
LoadDataRejectClearsStaged(r, f, kind) ==
    [r EXCEPT !.error = fetchSalesDataThrows(kind),
              !.loadState = "error",
              !.pendingData = NullData,
              !.pendingLatestInterval = NullInterval,
              !.inflight = r.inflight \ {f}]

\* after the await, the promise rejected: the catch block
LoadDataReject(r, f, kind) ==
    [r EXCEPT !.error = fetchSalesDataThrows(kind),
              !.loadState = "error",
              !.inflight = r.inflight \ {f}]

----------------------------------------------------------------------------
(* commitPendingData and triggerRefresh *)

\* a commit that installs the staged snapshot and keeps it staged
commitPendingDataKeepsStaged(r) ==
    [r EXCEPT !.data = IF r.pendingData # NullData THEN r.pendingData ELSE @,
              !.latestInterval = IF r.pendingLatestInterval # NullInterval
                                 THEN r.pendingLatestInterval ELSE @]

\* a commit that falls back to a fresh fetch whenever nothing is staged
commitPendingDataOrFetch(r) ==
    IF r.pendingData = NullData /\ r.pendingLatestInterval = NullInterval
    THEN LoadDataStart(r, FALSE)
    ELSE [r EXCEPT !.data = IF r.pendingData # NullData THEN r.pendingData ELSE @,
                   !.latestInterval = IF r.pendingLatestInterval # NullInterval
                                      THEN r.pendingLatestInterval ELSE @,
                   !.pendingData = NullData,
                   !.pendingLatestInterval = NullInterval]

commitPendingData(r) ==
    LET r1 == IF r.pendingData # NullData
              THEN [r EXCEPT !.data = r.pendingData, !.pendingData = NullData]
              ELSE r
    IN  IF r.pendingLatestInterval # NullInterval
        THEN [r1 EXCEPT !.latestInterval = r.pendingLatestInterval,
                        !.pendingLatestInterval = NullInterval]
        ELSE r1

\* a refresh that restarts the anticipation countdown in Charts only
triggerRefreshChartsOnly(r) ==
    IF r.pathname = "/"
    THEN [r EXCEPT !.incomingCountdown = INCOMING_COUNTDOWN_SECONDS,
                   !.nav = "/incoming"]
    ELSE [r EXCEPT !.nav = "/incoming"]

\* a refresh that also forgets which interval was preloaded
triggerRefreshForgetsPreload(r) ==
    [r EXCEPT !.incomingCountdown = INCOMING_COUNTDOWN_SECONDS,
              !.nav = "/incoming",
              !.hasPreloadedForInterval = NoKey]

\* a refresh that also commits what is staged
triggerRefreshCommits(r) ==
    [commitPendingData(r) EXCEPT !.incomingCountdown = INCOMING_COUNTDOWN_SECONDS,
                                 !.nav = "/incoming"]

\* a refresh that does not look at DEV_FORCE_VIEW
triggerRefreshIgnoresToggle(r) ==
    [r EXCEPT !.incomingCountdown = INCOMING_COUNTDOWN_SECONDS,
              !.nav = "/incoming"]

triggerRefresh(r) ==
    IF DEV_FORCE_VIEW # NoForce THEN r
    ELSE [r EXCEPT !.incomingCountdown = INCOMING_COUNTDOWN_SECONDS,
                   !.nav = "/incoming"]

----------------------------------------------------------------------------
(* The scheduler's tick *)

\* a preload trigger that does not consult hasPreloadedForInterval
PreloadDueEveryTick(r) ==
    /\ MinuteInInterval(now) = 0
    /\ Seconds(now) = 30

\* a preload trigger that is dead once a fetch has failed
PreloadDueUnlessError(r) ==
    /\ MinuteInInterval(now) = 0
    /\ Seconds(now) = 30
    /\ r.hasPreloadedForInterval # CurrentIntervalKey(now)
    /\ r.error = NoError

PreloadDue(r) ==
    /\ MinuteInInterval(now) = 0
    /\ Seconds(now) = 30
    /\ r.hasPreloadedForInterval # CurrentIntervalKey(now)

\* a display trigger that does not consult isInitialLoad
RevealDueOnInitialLoad(r) ==
    /\ MinuteInInterval(now) = 1
    /\ Seconds(now) = 0
    /\ r.pathname = "/"

RevealDue(r) ==
    /\ MinuteInInterval(now) = 1
    /\ Seconds(now) = 0
    /\ ~r.isInitialLoad
    /\ r.pathname = "/"

\* the body of the display trigger: setIncomingCountdown; router.push
RevealTrigger(r) ==
    [r EXCEPT !.incomingCountdown = INCOMING_COUNTDOWN_SECONDS,
              !.nav = "/incoming",
              !.reveals = @ + 1]

tick(r) ==
    LET currentIntervalKey == CurrentIntervalKey(now)
        r1 == [r EXCEPT !.nextUpdateCountdown = getSecondsUntilNextUpdate(now),
                        !.ticksThisSecond = @ + 1]
        r2 == IF PreloadDue(r)
              THEN LoadDataStart(
                       [r1 EXCEPT !.hasPreloadedForInterval = currentIntervalKey,
                                  !.preloadLog = Append(@, currentIntervalKey)],
                       TRUE)
              ELSE r1
    IN  IF RevealDue(r) THEN RevealTrigger(r2) ELSE r2

----------------------------------------------------------------------------
(* The two countdown effects.  Running an effect again first runs the       *)
(* cleanup of its previous run, which clears the timer that run had set.    *)

\* an incoming countdown effect that does not navigate when it reaches zero
IncomingCountdownEffectStays(r) ==
    IF DEV_FORCE_VIEW # NoForce THEN [r EXCEPT !.incomingTimer = "none"]
    ELSE IF r.pathname # "/incoming" THEN [r EXCEPT !.incomingTimer = "none"]
    ELSE IF r.incomingCountdown <= 0
    THEN [r EXCEPT !.incomingTimer = "none"]
    ELSE [r EXCEPT !.incomingTimer = "armed"]

IncomingCountdownEffect(r) ==
    IF DEV_FORCE_VIEW # NoForce THEN [r EXCEPT !.incomingTimer = "none"]
    ELSE IF r.pathname # "/incoming" THEN [r EXCEPT !.incomingTimer = "none"]
    ELSE IF r.incomingCountdown <= 0
    THEN [r EXCEPT !.incomingTimer = "none",
                   !.viewSecondsRemaining = VIEW_DISPLAY_SECONDS,
                   !.nav = "/interval"]
    ELSE [r EXCEPT !.incomingTimer = "armed"]

\* a view timer effect that leaves the interval view for the charts
ViewTimerEffectSkipsCumulative(r) ==
    IF r.pathname # "/interval" /\ r.pathname # "/cumulative"
    THEN [r EXCEPT !.viewTimer = "none"]
    ELSE IF r.viewSecondsRemaining <= 0
    THEN [commitPendingData(r) EXCEPT !.viewTimer = "none", !.nav = "/"]
    ELSE [r EXCEPT !.viewTimer = "armed"]

ViewTimerEffect(r) ==
    IF DEV_FORCE_VIEW # NoForce THEN [r EXCEPT !.viewTimer = "none"]
    ELSE IF r.pathname # "/interval" /\ r.pathname # "/cumulative"
    THEN [r EXCEPT !.viewTimer = "none"]
    ELSE IF r.viewSecondsRemaining <= 0
    THEN IF r.pathname = "/interval"
         THEN [r EXCEPT !.viewTimer = "none",
                        !.viewSecondsRemaining = VIEW_DISPLAY_SECONDS,
                        !.nav = "/cumulative"]
         ELSE [commitPendingData(r) EXCEPT !.viewTimer = "none", !.nav = "/"]
    ELSE [r EXCEPT !.viewTimer = "armed"]

\* the scheduler effect: under the dev toggle it only navigates to the forced
\* view; otherwise it runs tick() (and starts the interval)
SchedulerEffect(r) ==
    IF DEV_FORCE_VIEW # NoForce
    THEN IF r.pathname # DEV_FORCE_VIEW
         THEN [r EXCEPT !.nav = DEV_FORCE_VIEW]
         ELSE r
    ELSE tick(r)

\* the dependencies of the incoming countdown effect differ between renders
IncomingDepsChanged(prev, cur) ==
    \/ prev.pathname # cur.pathname
    \/ prev.incomingCountdown # cur.incomingCountdown

\* the dependencies of the view timer effect differ between renders;
\* commitPendingData is a new function whenever a pending cell changed
ViewDepsChanged(prev, cur) ==
    \/ prev.pathname # cur.pathname
    \/ prev.viewSecondsRemaining # cur.viewSecondsRemaining
    \/ prev.pendingData # cur.pendingData
    \/ prev.pendingLatestInterval # cur.pendingLatestInterval

\* one render after the state changed from prev to cur: the effects whose
\* dependencies changed run, in the order the component declares them
\* (first: the render is the mount, where every effect runs)
EffectsPass(prev, cur, first) ==
    LET r1 == IF first \/ prev.pathname # cur.pathname
              THEN SchedulerEffect(cur) ELSE cur
        r2 == IF first \/ IncomingDepsChanged(prev, cur)
              THEN IncomingCountdownEffect(r1) ELSE r1
    IN  IF first \/ ViewDepsChanged(prev, cur)
        THEN ViewTimerEffect(r2) ELSE r2

\* renders repeat until a pass changes no dependency
RECURSIVE Settle(_, _)
Settle(prev, cur) ==
    IF ~IncomingDepsChanged(prev, cur) /\ ~ViewDepsChanged(prev, cur)
    THEN cur
    ELSE Settle(cur, EffectsPass(prev, cur, FALSE))

----------------------------------------------------------------------------
(* The overlay-based revision: AnticipationProvider, SalesIncoming and the  *)
(* Dashboard component (src/src/components).  The record `overlay' holds    *)
(* their useState and useRef cells; a response is named by the number of    *)
(* the fetchSalesData() call that returned it.                              *)

\* onHideRef.current = null
NoCallback == [registered |-> FALSE, preloadedData |-> NullResponse]

\* the closure activatePreloadedData of a render whose preloadedData was v
Callback(v) == [registered |-> TRUE, preloadedData |-> v]

\* the useState and useRef initialisers of the three components
OverlayUnmounted ==
    [mounted |-> FALSE, tickDue |-> FALSE,
     state |-> "idle", onHideRef |-> NoCallback,
     count |-> COUNTDOWN_SECONDS, hasStartedRef |-> FALSE, countTimer |-> "none",
     data |-> NullResponse, latestInterval |-> NullResponse,
     loadState |-> "loading", error |-> NoError,
     displayMode |-> "charts", displayModeRef |-> "charts",
     viewCountdown |-> 0, viewTimer |-> "none",
     preloadedData |-> NullResponse,
     isInitialLoad |-> TRUE, hasPreloadedForInterval |-> NoKey,
     inflight |-> {}, fetchSeq |-> 0,
     elapsed |-> 0, hideLog |-> <<>>]

\* loadData / preloadData up to the await
DashboardFetchStart(o, preload) ==
    [o EXCEPT !.loadState = IF preload THEN "preloading" ELSE "loading",
              !.fetchSeq = o.fetchSeq + 1,
              !.inflight = o.inflight \cup {[id |-> o.fetchSeq + 1, preload |-> preload]}]

\* loadData / preloadData after the await, the promise fulfilled
DashboardFetchResolve(o, f) ==
    IF f.preload
    THEN [o EXCEPT !.preloadedData = f.id,
                   !.loadState = "loaded",
                   !.inflight = o.inflight \ {f}]
    ELSE [o EXCEPT !.data = f.id,
                   !.latestInterval = f.id,
                   !.error = NoError,
                   !.loadState = "loaded",
                   !.isInitialLoad = FALSE,
                   !.inflight = o.inflight \ {f}]

\* loadData / preloadData after the await, the promise rejected
DashboardFetchReject(o, f) ==
    IF f.preload
    THEN [o EXCEPT !.loadState = "loaded",
                   !.inflight = o.inflight \ {f}]
    ELSE [o EXCEPT !.error = "Failed to fetch",
                   !.loadState = "error",
                   !.inflight = o.inflight \ {f}]

\* the closure activatePreloadedData that captured preloadedData = captured
activatePreloadedData(o, captured) ==
    LET stored == IF captured # NullResponse
                  THEN [o EXCEPT !.data = captured, !.latestInterval = captured]
                  ELSE o
    IN  [stored EXCEPT !.displayModeRef = "interval",
                       !.displayMode = "interval",
                       !.viewCountdown = DASHBOARD_VIEW_DISPLAY_SECONDS]

\* AnticipationProvider.show; a showing that begins has run for no second yet
show(o) ==
    [o EXCEPT !.state = "showing",
              !.elapsed = IF o.state = "idle" THEN 0 ELSE @]

\* AnticipationProvider.hide
hide(o) ==
    LET idle == [o EXCEPT !.state = "idle", !.hideLog = Append(@, o.elapsed)]
    IN  IF o.onHideRef.registered
        THEN [activatePreloadedData(idle, o.onHideRef.preloadedData)
                  EXCEPT !.onHideRef = NoCallback]
        ELSE idle

\* startAnticipation as created by the render whose state is o
startAnticipation(o) ==
    show([o EXCEPT !.onHideRef = Callback(o.preloadedData)])

handleManualRefresh(o) == startAnticipation(o)

\* the tick of the Dashboard component
DashboardTick(o) ==
    LET currentIntervalKey == CurrentIntervalKey(now)
        o1 == IF /\ MinuteInInterval(now) = 0
                 /\ Seconds(now) = 30
                 /\ o.hasPreloadedForInterval # currentIntervalKey
              THEN DashboardFetchStart(
                       [o EXCEPT !.hasPreloadedForInterval = currentIntervalKey],
                       TRUE)
              ELSE o
    IN  IF /\ MinuteInInterval(now) = 1
           /\ Seconds(now) = 0
           /\ ~o.isInitialLoad
           /\ o.displayModeRef = "charts"
        THEN startAnticipation(o1)
        ELSE o1

\* the view display countdown effect of the Dashboard component, run for the
\* render cur; acc carries the updates made so far in this pass
DashboardViewEffect(cur, acc) ==
    LET cleared == [acc EXCEPT !.viewTimer = "none"]
    IN  IF cur.state = "showing" THEN cleared
        ELSE IF cur.displayMode \in {"interval", "cumulative"} /\ cur.viewCountdown > 0
        THEN [cleared EXCEPT !.viewTimer = "armed"]
        ELSE IF cur.displayMode = "interval"
        THEN [cleared EXCEPT !.displayModeRef = "cumulative",
                             !.displayMode = "cumulative",
                             !.viewCountdown = DASHBOARD_VIEW_DISPLAY_SECONDS]
        ELSE IF cur.displayMode = "cumulative"
        THEN [cleared EXCEPT !.displayModeRef = "charts",
                             !.displayMode = "charts"]
        ELSE cleared

\* the first effect of SalesIncoming: reset when the overlay becomes visible
SalesIncomingResetEffect(cur, acc) ==
    IF cur.state = "showing" /\ ~acc.hasStartedRef
    THEN [acc EXCEPT !.hasStartedRef = TRUE, !.count = COUNTDOWN_SECONDS]
    ELSE IF cur.state # "showing"
    THEN [acc EXCEPT !.hasStartedRef = FALSE]
    ELSE acc

\* the second effect of SalesIncoming: the countdown timer.  It sees the
\* count of the render it belongs to, not the value the first effect has just
\* asked for with setCount
SalesIncomingCountdownEffect(cur, acc) ==
    LET cleared == [acc EXCEPT !.countTimer = "none"]
    IN  IF cur.state # "showing" THEN cleared
        ELSE IF cur.count <= 0 THEN hide(cleared)
        ELSE [cleared EXCEPT !.countTimer = "armed"]

\* a dependency of some effect of the three components differs between renders
OverlayDepsChanged(prev, cur) ==
    \/ prev.state # cur.state
    \/ prev.count # cur.count
    \/ prev.preloadedData # cur.preloadedData
    \/ prev.displayMode # cur.displayMode
    \/ prev.viewCountdown # cur.viewCountdown

\* one render after the state changed from prev to cur: the effects whose
\* dependencies changed run, the Dashboard's before SalesIncoming's as the
\* layout places them (first: the render is the mount).  startAnticipation
\* changes identity with preloadedData, which re-creates the scheduler effect
OverlayEffectsPass(prev, cur, first) ==
    LET a0 == IF first THEN DashboardFetchStart(cur, FALSE) ELSE cur
        a1 == IF first \/ prev.preloadedData # cur.preloadedData
              THEN DashboardTick(a0) ELSE a0
        a2 == IF \/ first
                 \/ prev.displayMode # cur.displayMode
                 \/ prev.viewCountdown # cur.viewCountdown
                 \/ prev.state # cur.state
              THEN DashboardViewEffect(cur, a1) ELSE a1
        a3 == IF first \/ prev.state # cur.state
              THEN SalesIncomingResetEffect(cur, a2) ELSE a2
    IN  IF first \/ prev.state # cur.state \/ prev.count # cur.count
        THEN SalesIncomingCountdownEffect(cur, a3) ELSE a3

RECURSIVE OverlaySettle(_, _)
OverlaySettle(prev, cur) ==
    IF ~OverlayDepsChanged(prev, cur)
    THEN cur
    ELSE OverlaySettle(cur, OverlayEffectsPass(prev, cur, FALSE))

----------------------------------------------------------------------------
(* The API route GET /api/sales: the module-level cache and the handler,    *)
(* split at its await.  A response is named by the number of the request    *)
(* whose query produced it.                                                 *)

\* cache = null
NoCache == [intervalKey |-> NoKey, data |-> NullResponse]

\* the route module as loaded: no cache, no request yet
ServerIdle ==
    [cache |-> NoCache, running |-> {}, requests |-> 0,
     queries |-> <<>>, failures |-> <<>>]

\* `${date}_${cutoff.getHours()}_${cutoff.getMinutes()}` of the cutoff
getIntervalCacheKey(t) ==
    LET cutoff == getIntervalCutoffTimeServer(t)
    IN  <<cutoff \div 86400, Hours(cutoff), Minutes(cutoff)>>

\* GET up to the await: a cache hit answers at once, a miss starts the query
GETStart(s, t) ==
    LET currentIntervalKey == getIntervalCacheKey(t)
        id == s.requests + 1
    IN  IF s.cache # NoCache /\ s.cache.intervalKey = currentIntervalKey
        THEN [s EXCEPT !.requests = id]
        ELSE [s EXCEPT !.requests = id,
                       !.running = @ \cup {[id |-> id, intervalKey |-> currentIntervalKey]},
                       !.queries = Append(@, currentIntervalKey)]

\* GET after the await, fetchFromBigQuery() fulfilled: store in cache
GETResolve(s, q) ==
    [s EXCEPT !.cache = [intervalKey |-> q.intervalKey, data |-> q.id],
              !.running = @ \ {q}]

\* GET after the await, fetchFromBigQuery() rejected: the catch block
GETReject(s, q) ==
    [s EXCEPT !.running = @ \ {q},
              !.failures = Append(@, q.intervalKey)]

----------------------------------------------------------------------------
(* transformData of the API route.  Quantities are counted in halves of a   *)
(* unit, so that Math.round has something to round; a row's year is given   *)
(* relative to getCurrentYear(): 0 is this year, -1 is last year.           *)

\* no rows have come back from BigQuery
NoChart == [rows |-> {}, received |-> FALSE, called |-> FALSE, results |-> {}]

\* Math.round of a non-negative quantity given in halves
MathRound(halves) == (halves + 1) \div 2

\* formatTime: the HH:MM label of a timestamp
formatTime(ts) == <<Hours(ts), Minutes(ts)>>

\* metric === 'orders' ? 'num_orders' : 'gmv_sek'
MetricColumn(row) ==
    IF ServerMetric = "orders" THEN row.num_orders ELSE row.gmv_sek

\* a comparison that leaves out the bucket that ends at the cutoff
BeforeCutoff(tsDate, cutoffTime) == tsDate < cutoffTime

\* tsDate <= cutoffTime
NotAfterCutoff(tsDate, cutoffTime) == tsDate <= cutoffTime

\* .unique().sort('ts'): the timestamps in ascending order
RECURSIVE SortedTimestamps(_)
SortedTimestamps(tss) ==
    IF tss = {} THEN <<>>
    ELSE LET first == CHOOSE ts \in tss : \A other \in tss : ts <= other
         IN  <<first>> \o SortedTimestamps(tss \ {first})

\* what transformData returns for one branch
TransformBranch(rows, branch, cutoffTime) ==
    LET filtered == {r \in rows : r.branch = branch}
        allTimestamps == SortedTimestamps({r.ts : r \in filtered})
        ValueAt(ts, year) ==
            LET found == {r \in filtered : r.ts = ts /\ r.year = year}
            IN  IF found = {} THEN 0 ELSE MetricColumn(CHOOSE r \in found : TRUE)
        barData ==
            [i \in DOMAIN allTimestamps |->
                LET ts == allTimestamps[i]
                    thisYearValue == IF NotAfterCutoff(ts, cutoffTime)
                                     THEN ValueAt(ts, 0) ELSE 0
                IN  [time |-> formatTime(ts),
                     thisYear |-> MathRound(thisYearValue),
                     lastYear |-> MathRound(ValueAt(ts, -1))]]
        \* the forEach over allTimestamps with its two accumulators
        lines[i \in 0..Len(allTimestamps)] ==
            IF i = 0
            THEN [thisYearCumulative |-> 0, lastYearCumulative |-> 0,
                  thisYearLine |-> <<>>, lastYearLine |-> <<>>]
            ELSE LET before == lines[i - 1]
                     ts == allTimestamps[i]
                     timeLabel == formatTime(ts)
                     lastYearCumulative == before.lastYearCumulative + ValueAt(ts, -1)
                     shown == NotAfterCutoff(ts, cutoffTime)
                     thisYearCumulative ==
                         IF shown THEN before.thisYearCumulative + ValueAt(ts, 0)
                         ELSE before.thisYearCumulative
                 IN  [thisYearCumulative |-> thisYearCumulative,
                      lastYearCumulative |-> lastYearCumulative,
                      thisYearLine |->
                          IF shown
                          THEN Append(before.thisYearLine,
                                      [x |-> timeLabel, y |-> MathRound(thisYearCumulative)])
                          ELSE before.thisYearLine,
                      lastYearLine |->
                          Append(before.lastYearLine,
                                 [x |-> timeLabel, y |-> MathRound(lastYearCumulative)])]
        done == lines[Len(allTimestamps)]
    IN  [branch |-> branch,
         barData |-> barData,
         thisYearLine |-> done.thisYearLine,
         lastYearLine |-> done.lastYearLine]

\* transformData called at instant t
transformData(rows, t) ==
    IF rows = {} THEN {}
    ELSE LET cutoffTime == getIntervalCutoffTimeServer(t)
         IN  {TransformBranch(rows, branch, cutoffTime) :
                  branch \in {r.branch : r \in rows}}

----------------------------------------------------------------------------
(* The modelled stretch of wall-clock time *)

FirstBoundary == HMS(14, 0, 0)

StartTimes == {HMS(13, 59, 48), HMS(14, 0, 30), HMS(14, 1, 0)}

EndTime == FirstBoundary + Horizon

\* the seconds of a ten-minute bucket at which the user may press Refresh:
\* before, at and after the preload second and the reveal second, inside each
\* phase of the clock-driven cycle, after it, and ten seconds before the
\* next boundary
RefreshOffsets == {0, 20, 30, 50, 60, 65, 75, 105, 131, 590}

\* the user is at the kiosk until the second bucket boundary
RefreshUntil == FirstBoundary + 600

\* nothing but the scheduler's tick is pending
Idle ==
    /\ pathname = "/"
    /\ nav = NoNav
    /\ incomingTimer = "none"
    /\ viewTimer = "none"

\* an idle dashboard between the end of a reveal cycle and the next bucket
\* boundary: every tick until then only recomputes nextUpdateCountdown
Quiet ==
    /\ Idle
    /\ SecondInBucket(now) >= QuietFrom
    /\ SecondInBucket(now) < 600 - QuietLead

Elapse(timer) == IF timer = "armed" THEN "due" ELSE timer

----------------------------------------------------------------------------
(* Initial state: the values of the useState and useRef initialisers *)

InitWith(times, toggles) ==
    /\ now \in times
    /\ DEV_FORCE_VIEW \in toggles
    /\ mounted = FALSE
    /\ tickDue = FALSE
    /\ pathname = "/"
    /\ nav = NoNav
    /\ navAge = 0
    /\ data = EmptyData
    /\ latestInterval = NullInterval
    /\ metric = "gmv"
    /\ loadState = "loading"
    /\ error = NoError
    /\ pendingData = NullData
    /\ pendingLatestInterval = NullInterval
    /\ incomingCountdown = INCOMING_COUNTDOWN_SECONDS
    /\ viewSecondsRemaining = VIEW_DISPLAY_SECONDS
    /\ nextUpdateCountdown = getSecondsUntilNextUpdate(now)
    /\ hasPreloadedForInterval = NoKey
    /\ isInitialLoad = TRUE
    /\ incomingTimer = "none"
    /\ viewTimer = "none"
    /\ inflight = {}
    /\ fetchSeq = 0
    /\ preloadLog = <<>>
    /\ reveals = 0
    /\ ticksThisSecond = 0
    /\ readout = NoReadout
    /\ overlay = OverlayUnmounted
    /\ server = ServerIdle
    /\ chart = NoChart

\* the build as shipped: DEV_FORCE_VIEW is null
InitAt(times) == InitWith(times, {NoForce})

Init == InitAt(StartTimes)

----------------------------------------------------------------------------
(* Actions *)

\* the first commit: the initial-load effect calls loadData(), the scheduler
\* effect runs tick() and starts its interval, the countdown effects run
Mount ==
    /\ ~mounted
    /\ mounted' = TRUE
    /\ tickDue' = FALSE
    /\ LET r1 == LoadDataStart(St, FALSE)
       IN  Install(Settle(r1, EffectsPass(r1, r1, TRUE)))
    /\ UNCHANGED <<now, readout, DEV_FORCE_VIEW, overlay, server,
                   chart>>

\* one second of wall-clock time passes: the interval and the armed timers
\* come due; a pending router.push may stay uncommitted for at most lag seconds
AdvanceWithin(lag) ==
    /\ mounted
    /\ ~tickDue
    /\ incomingTimer # "due"
    /\ viewTimer # "due"
    /\ nav = NoNav \/ navAge < lag
    /\ now < EndTime
    /\ now' = IF Quiet THEN now + (600 - QuietLead - SecondInBucket(now))
              ELSE now + 1
    /\ tickDue' = (DEV_FORCE_VIEW = NoForce)
    /\ incomingTimer' = Elapse(incomingTimer)
    /\ viewTimer' = Elapse(viewTimer)
    /\ navAge' = IF nav = NoNav THEN 0 ELSE navAge + 1
    /\ ticksThisSecond' = 0
    /\ UNCHANGED <<mounted, pathname, nav, data, latestInterval,
                   metric, loadState, error, pendingData, pendingLatestInterval,
                   incomingCountdown, viewSecondsRemaining, nextUpdateCountdown,
                   hasPreloadedForInterval, isInitialLoad, inflight, fetchSeq,
                   preloadLog, reveals, readout, DEV_FORCE_VIEW, overlay, server,
                   chart>>

\* a second passes; navigations commit within the second they were pushed in
Advance == AdvanceWithin(MaxNavLag)

\* a second passes; a route that is slow to load keeps a navigation pending
\* across seconds
AdvanceSlowNav == AdvanceWithin(SlowNavLag)

\* the seconds of a ten-minute bucket in which the scheduler's callback may
\* fail to run: the preload second, the reveal second, and one second at which
\* neither trigger is due
LateSeconds == {30, 45, 60}

\* a second passes before the pending setInterval callback has run: the
\* callback is late, and no tick() executes inside the second that ends
AdvanceLateTick ==
    /\ mounted
    /\ tickDue
    /\ SecondInBucket(now) \in LateSeconds
    /\ incomingTimer # "due"
    /\ viewTimer # "due"
    /\ nav = NoNav
    /\ now < EndTime
    /\ now' = now + 1
    /\ incomingTimer' = Elapse(incomingTimer)
    /\ viewTimer' = Elapse(viewTimer)
    /\ ticksThisSecond' = 0
    /\ UNCHANGED <<mounted, tickDue, pathname, nav, navAge, data, latestInterval,
                   metric, loadState, error, pendingData, pendingLatestInterval,
                   incomingCountdown, viewSecondsRemaining, nextUpdateCountdown,
                   hasPreloadedForInterval, isInitialLoad, inflight, fetchSeq,
                   preloadLog, reveals, readout, DEV_FORCE_VIEW, overlay, server,
                   chart>>

\* the scheduler's setInterval callback
Tick ==
    /\ mounted
    /\ tickDue
    /\ tickDue' = FALSE
    /\ Install(Settle(St, tick(St)))
    /\ UNCHANGED <<now, mounted, readout, DEV_FORCE_VIEW, overlay, server,
                   chart>>

\* the setTimeout callback of the incoming countdown effect
IncomingTimeout ==
    /\ incomingTimer = "due"
    /\ LET r1 == [St EXCEPT !.incomingCountdown = @ - 1, !.incomingTimer = "none"]
       IN  Install(Settle(St, r1))
    /\ UNCHANGED <<now, mounted, tickDue, readout, DEV_FORCE_VIEW, overlay, server,
                   chart>>

\* the setTimeout callback of the view timer effect
ViewTimeout ==
    /\ viewTimer = "due"
    /\ LET r1 == [St EXCEPT !.viewSecondsRemaining = @ - 1, !.viewTimer = "none"]
       IN  Install(Settle(St, r1))
    /\ UNCHANGED <<now, mounted, tickDue, readout, DEV_FORCE_VIEW, overlay, server,
                   chart>>

\* the route changes to the target of the pending router.push; a changed
\* pathname re-creates the scheduler effect, which clears the old interval,
\* runs tick() and starts a new interval
NavCommit ==
    /\ nav # NoNav
    /\ LET r1 == [St EXCEPT !.pathname = nav, !.nav = NoNav]
       IN  Install(Settle(St, r1))
    /\ tickDue' = IF nav # pathname THEN FALSE ELSE tickDue
    /\ UNCHANGED <<now, mounted, readout, DEV_FORCE_VIEW, overlay, server,
                   chart>>

\* the user presses a Refresh or Retry button
TriggerRefresh ==
    /\ mounted
    /\ SecondInBucket(now) \in RefreshOffsets
    /\ now < RefreshUntil
    /\ Install(Settle(St, triggerRefresh(St)))
    /\ UNCHANGED <<now, mounted, tickDue, readout, DEV_FORCE_VIEW, overlay, server,
                   chart>>

\* a fetchSalesData() promise fulfils
FetchSucceeds ==
    /\ \E f \in inflight, resp \in Responses :
           Install(Settle(St, LoadDataResolve(St, f, resp)))
    /\ UNCHANGED <<now, mounted, tickDue, readout, DEV_FORCE_VIEW, overlay, server,
                   chart>>

\* a fetchSalesData() promise rejects
FetchFails ==
    /\ \E f \in inflight, kind \in FetchFailures :
           Install(Settle(St, LoadDataReject(St, f, kind)))
    /\ UNCHANGED <<now, mounted, tickDue, readout, DEV_FORCE_VIEW, overlay, server,
                   chart>>

Next ==
    \/ Mount
    \/ Advance
    \/ Tick
    \/ IncomingTimeout
    \/ ViewTimeout
    \/ NavCommit
    \/ TriggerRefresh
    \/ FetchSucceeds
    \/ FetchFails

Spec == Init /\ [][Next]_vars

\* the dashboard left to the clock: no manual refresh
NextAuto ==
    \/ Mount
    \/ Advance
    \/ Tick
    \/ IncomingTimeout
    \/ ViewTimeout
    \/ NavCommit
    \/ FetchSucceeds
    \/ FetchFails

SpecAuto == Init /\ [][NextAuto]_vars

\* what the browser guarantees: a second that can pass passes, the
\* scheduler's interval and a timer that is due fire, a pushed navigation
\* commits.  Each conjunct is the weak fairness of its action, with the
\* enabling condition of the action written out as its guard.  Nothing is
\* assumed about the fetches, which may stay in flight for ever.
Fairness ==
    /\ WF_vars(Advance)
    /\ []<>(mounted) \/ []<><<Mount>>_vars
    /\ []<>(~(mounted /\ tickDue)) \/ []<><<Tick>>_vars
    /\ []<>(incomingTimer # "due") \/ []<><<IncomingTimeout>>_vars
    /\ []<>(viewTimer # "due") \/ []<><<ViewTimeout>>_vars
    /\ []<>(nav = NoNav) \/ []<><<NavCommit>>_vars

SpecAutoFair == SpecAuto /\ Fairness

\* the dashboard with a user who presses Refresh only finitely often
SpecFair == Spec /\ Fairness /\ <>[][~TriggerRefresh]_vars

\* the dashboard left to the clock, with routes that are slow to load
NextSlowNav ==
    \/ Mount
    \/ AdvanceSlowNav
    \/ Tick
    \/ IncomingTimeout
    \/ ViewTimeout
    \/ NavCommit
    \/ FetchSucceeds
    \/ FetchFails

SpecSlowNav == Init /\ [][NextSlowNav]_vars

\* the dashboard left to the clock, with an interval whose callbacks may run
\* late
NextDrift ==
    \/ Mount
    \/ Advance
    \/ AdvanceLateTick
    \/ Tick
    \/ IncomingTimeout
    \/ ViewTimeout
    \/ NavCommit
    \/ FetchSucceeds
    \/ FetchFails

SpecDrift == Init /\ [][NextDrift]_vars

----------------------------------------------------------------------------
(* A build whose DEV_FORCE_VIEW names a route *)

InitDev == InitWith(StartTimes, Routes)

\* under the toggle no interval and no timer exists: Tick, IncomingTimeout
\* and ViewTimeout have nothing to run
NextDev ==
    \/ Mount
    \/ Advance
    \/ NavCommit
    \/ TriggerRefresh
    \/ FetchSucceeds
    \/ FetchFails

SpecDev == InitDev /\ [][NextDev]_vars

----------------------------------------------------------------------------
(* The clock helpers on their own: called once in every second of a window
   around an hour boundary and around midnight *)

ClockStarts == {HMS(17, 49, 50), HMS(23, 49, 50)}

InitClock == InitAt(ClockStarts)

\* the helpers are called in the current second
ReadClock ==
    /\ readout.at # now
    /\ readout' = ReadAt(now)
    /\ UNCHANGED <<now, mounted, tickDue, pathname, nav, navAge, data,
                   latestInterval, metric, loadState, error, pendingData,
                   pendingLatestInterval, incomingCountdown,
                   viewSecondsRemaining, nextUpdateCountdown,
                   hasPreloadedForInterval, isInitialLoad, incomingTimer,
                   viewTimer, inflight, fetchSeq, preloadLog, reveals,
                   ticksThisSecond, DEV_FORCE_VIEW, overlay, server,
                   chart>>

\* a second passes
ClockSecond ==
    /\ readout.at = now
    /\ \E start \in ClockStarts : start <= now /\ now < start + ClockSpan
    /\ now' = now + 1
    /\ UNCHANGED <<mounted, tickDue, pathname, nav, navAge, data,
                   latestInterval, metric, loadState, error, pendingData,
                   pendingLatestInterval, incomingCountdown,
                   viewSecondsRemaining, nextUpdateCountdown,
                   hasPreloadedForInterval, isInitialLoad, incomingTimer,
                   viewTimer, inflight, fetchSeq, preloadLog, reveals,
                   ticksThisSecond, readout, DEV_FORCE_VIEW, overlay, server,
                   chart>>

NextClock ==
    \/ ReadClock
    \/ ClockSecond

SpecClock == InitClock /\ [][NextClock]_vars

----------------------------------------------------------------------------
(* The overlay-based revision as a state machine of its own *)

\* the cells of DashboardProvider stay as they are
ContextUnchanged ==
    UNCHANGED <<mounted, tickDue, pathname, nav, navAge, data, latestInterval,
                metric, loadState, error, pendingData, pendingLatestInterval,
                incomingCountdown, viewSecondsRemaining, nextUpdateCountdown,
                hasPreloadedForInterval, isInitialLoad, incomingTimer,
                viewTimer, inflight, fetchSeq, preloadLog, reveals,
                ticksThisSecond, readout, DEV_FORCE_VIEW>>

OverlayStart == HMS(14, 0, 25)

OverlayEnd == FirstBoundary + OverlayHorizon

InitOverlay == InitWith({OverlayStart}, {NoForce})

\* the first commit of the layout: loadData(), tick(), the effects of
\* SalesIncoming
OverlayMount ==
    /\ ~overlay.mounted
    /\ LET r1 == [overlay EXCEPT !.mounted = TRUE]
       IN  overlay' = OverlaySettle(r1, OverlayEffectsPass(r1, r1, TRUE))
    /\ UNCHANGED <<now, server, chart>>
    /\ ContextUnchanged

\* one second of wall-clock time passes
OverlayAdvance ==
    /\ overlay.mounted
    /\ ~overlay.tickDue
    /\ overlay.countTimer # "due"
    /\ overlay.viewTimer # "due"
    /\ now < OverlayEnd
    /\ now' = now + 1
    /\ overlay' = [overlay EXCEPT !.tickDue = TRUE,
                                  !.countTimer = Elapse(@),
                                  !.viewTimer = Elapse(@)]
    /\ UNCHANGED <<server, chart>>
    /\ ContextUnchanged

\* the setInterval callback of the Dashboard component
OverlayTick ==
    /\ overlay.mounted
    /\ overlay.tickDue
    /\ overlay' = OverlaySettle(overlay,
                                DashboardTick([overlay EXCEPT !.tickDue = FALSE]))
    /\ UNCHANGED <<now, server, chart>>
    /\ ContextUnchanged

\* the setTimeout callback of SalesIncoming: setCount(prev => prev - 1)
CountTimeout ==
    /\ overlay.countTimer = "due"
    /\ overlay' = OverlaySettle(overlay,
                                [overlay EXCEPT !.count = @ - 1,
                                                !.countTimer = "none",
                                                !.elapsed = @ + 1])
    /\ UNCHANGED <<now, server, chart>>
    /\ ContextUnchanged

\* the setTimeout callback of the view display countdown
DashboardViewTimeout ==
    /\ overlay.viewTimer = "due"
    /\ overlay' = OverlaySettle(overlay,
                                [overlay EXCEPT !.viewCountdown = @ - 1,
                                                !.viewTimer = "none"])
    /\ UNCHANGED <<now, server, chart>>
    /\ ContextUnchanged

\* the user presses the refresh button of the Dashboard component
ManualRefresh ==
    /\ overlay.mounted
    /\ SecondInBucket(now) \in RefreshOffsets
    /\ overlay' = OverlaySettle(overlay, handleManualRefresh(overlay))
    /\ UNCHANGED <<now, server, chart>>
    /\ ContextUnchanged

\* a fetchSalesData() promise of the Dashboard component fulfils
OverlayFetchSucceeds ==
    /\ \E f \in overlay.inflight :
           overlay' = OverlaySettle(overlay, DashboardFetchResolve(overlay, f))
    /\ UNCHANGED <<now, server, chart>>
    /\ ContextUnchanged

\* a fetchSalesData() promise of the Dashboard component rejects
OverlayFetchFails ==
    /\ \E f \in overlay.inflight :
           overlay' = OverlaySettle(overlay, DashboardFetchReject(overlay, f))
    /\ UNCHANGED <<now, server, chart>>
    /\ ContextUnchanged

NextOverlay ==
    \/ OverlayMount
    \/ OverlayAdvance
    \/ OverlayTick
    \/ CountTimeout
    \/ DashboardViewTimeout
    \/ ManualRefresh
    \/ OverlayFetchSucceeds
    \/ OverlayFetchFails

SpecOverlay == InitOverlay /\ [][NextOverlay]_vars

----------------------------------------------------------------------------
(* The API route as a state machine of its own: requests arrive around a    *)
(* bucket boundary                                                          *)

ServerStart == HMS(14, 9, 58)

InitServer == InitWith({ServerStart}, {NoForce})

\* a GET /api/sales request arrives
ServerGet ==
    /\ server.requests < MaxRequests
    /\ server' = GETStart(server, now)
    /\ UNCHANGED <<now, overlay, chart>>
    /\ ContextUnchanged

\* the BigQuery query of a request returns its rows
ServerQuerySucceeds ==
    /\ \E q \in server.running : server' = GETResolve(server, q)
    /\ UNCHANGED <<now, overlay, chart>>
    /\ ContextUnchanged

\* the BigQuery query of a request throws
ServerQueryFails ==
    /\ \E q \in server.running : server' = GETReject(server, q)
    /\ UNCHANGED <<now, overlay, chart>>
    /\ ContextUnchanged

\* a second passes on the server
ServerSecond ==
    /\ now < ServerStart + ServerSpan
    /\ now' = now + 1
    /\ UNCHANGED <<overlay, server, chart>>
    /\ ContextUnchanged

NextServer ==
    \/ ServerGet
    \/ ServerQuerySucceeds
    \/ ServerQueryFails
    \/ ServerSecond

SpecServer == InitServer /\ [][NextServer]_vars

----------------------------------------------------------------------------
(* transformData on its own: a result set comes back from BigQuery around   *)
(* the boundary of 14:10 and is transformed                                 *)

ChartStart == HMS(14, 9, 59)

\* the buckets of the result set, named by the instant they end at
ChartTimestamps == {HMS(14, 0, 0), HMS(14, 10, 0), HMS(14, 20, 0)}

\* (branch, ts, year) of the rows a result set may hold: cdon has sold in
\* every bucket, fyndiq not in the first
ChartCells ==
    ({"cdon"} \X ChartTimestamps \X {0, -1})
        \cup ({"fyndiq"} \X (ChartTimestamps \ {HMS(14, 0, 0)}) \X {0, -1})

\* the result sets: every cell has no row, or a row of up to MaxOrders orders
\* (last year's rows are all of MaxOrders orders)
ChartRowSets ==
    {{[branch |-> c[1], ts |-> c[2], year |-> c[3],
       num_orders |-> 2 * orders[c], gmv_sek |-> 2 * orders[c] - 1] :
          c \in {d \in ChartCells : orders[d] # 0}} :
     orders \in {f \in [ChartCells -> 0..MaxOrders] :
                    \A c \in ChartCells : c[3] = -1 => f[c] \in {0, MaxOrders}}}

InitChart == InitWith({ChartStart}, {NoForce})

\* fetchFromBigQuery() returns its rows
ReceiveRows ==
    /\ ~chart.received
    /\ \E rows \in ChartRowSets :
           chart' = [chart EXCEPT !.rows = rows, !.received = TRUE]
    /\ UNCHANGED <<now, overlay, server>>
    /\ ContextUnchanged

\* transformData(rows) is called
Transform ==
    /\ chart.received
    /\ ~chart.called
    /\ chart' = [chart EXCEPT !.called = TRUE,
                              !.results = transformData(chart.rows, now)]
    /\ UNCHANGED <<now, overlay, server>>
    /\ ContextUnchanged

\* a second passes before the rows are transformed
ChartSecond ==
    /\ ~chart.called
    /\ now < ChartStart + ChartSpan
    /\ now' = now + 1
    /\ UNCHANGED <<overlay, server, chart>>
    /\ ContextUnchanged

NextChart ==
    \/ ReceiveRows
    \/ Transform
    \/ ChartSecond

SpecChart == InitChart /\ [][NextChart]_vars

----------------------------------------------------------------------------
(* What the pages render from the context *)

Screen(kind, d, interval, m, message, countdown) ==
    [kind |-> kind, data |-> d, interval |-> interval, metric |-> m,
     message |-> message, countdown |-> countdown]

\* ChartsPage
ChartsView(r) ==
    IF r.loadState = "loading" /\ Len(r.data.branches) = 0
    THEN Screen("spinner", EmptyData, NullInterval, "", NoError, 0)
    ELSE IF r.loadState = "error"
    THEN Screen("error", EmptyData, NullInterval, "", r.error, 0)
    ELSE Screen("charts", r.data, NullInterval, r.metric, NoError, 0)

\* IntervalPage
IntervalView(r) ==
    IF r.latestInterval = NullInterval
    THEN Screen("loading interval", EmptyData, NullInterval, "", NoError, 0)
    ELSE Screen("interval", EmptyData, r.latestInterval, r.metric, NoError,
                r.viewSecondsRemaining)

\* CumulativePage
CumulativeView(r) ==
    LET displayData == IF r.pendingLatestInterval # NullInterval
                       THEN r.pendingLatestInterval ELSE r.latestInterval
    IN  IF displayData = NullInterval
        THEN Screen("loading cumulative", EmptyData, NullInterval, "", NoError, 0)
        ELSE Screen("cumulative", EmptyData, displayData, r.metric, NoError,
                    r.viewSecondsRemaining)

\* IncomingPage
IncomingView(r) ==
    Screen("incoming", EmptyData, NullInterval, "", NoError, r.incomingCountdown)

\* the page of the current route
Rendered(r) ==
    IF r.pathname = "/" THEN ChartsView(r)
    ELSE IF r.pathname = "/incoming" THEN IncomingView(r)
    ELSE IF r.pathname = "/interval" THEN IntervalView(r)
    ELSE CumulativeView(r)

\* the state record of the next state
StNext ==
    [pathname |-> pathname', nav |-> nav', data |-> data',
     latestInterval |-> latestInterval', metric |-> metric',
     loadState |-> loadState', error |-> error', pendingData |-> pendingData',
     pendingLatestInterval |-> pendingLatestInterval',
     incomingCountdown |-> incomingCountdown',
     viewSecondsRemaining |-> viewSecondsRemaining',
     nextUpdateCountdown |-> nextUpdateCountdown',
     hasPreloadedForInterval |-> hasPreloadedForInterval',
     isInitialLoad |-> isInitialLoad', incomingTimer |-> incomingTimer',
     viewTimer |-> viewTimer', inflight |-> inflight', fetchSeq |-> fetchSeq',
     preloadLog |-> preloadLog', reveals |-> reveals',
     ticksThisSecond |-> ticksThisSecond']

----------------------------------------------------------------------------
(* Claims *)

TimedRoutes == {"/incoming", "/interval", "/cumulative"}

C2_CommitBeforeIntervalShown ==
    [][(pathname = "/incoming" /\ pathname' = "/interval") =>
           /\ pendingData' = NullData
           /\ pendingLatestInterval' = NullInterval
           /\ pendingData # NullData => data' = pendingData
           /\ pendingLatestInterval # NullInterval =>
                  latestInterval' = pendingLatestInterval]_vars

\* C3: in every reachable state the active chart data and the active interval
\* summary come from the same fetch response: the interval summary is that
\* of the response the data came from, or null.
C3_ActiveFromOneResponse ==
    latestInterval = NullInterval \/ latestInterval = data.id

\* the view timer effect runs commitPendingData (route /cumulative, countdown
\* at zero) in this step
CommitRuns ==
    /\ pathname = "/cumulative"
    /\ ViewTimeout \/ NavCommit \/ FetchSucceeds
    /\ pathname' = "/cumulative"
    /\ viewSecondsRemaining' <= 0

\* C4: when commitPendingData runs and nothing is staged, it issues a fresh
\* fetch: a commit with nothing staged is never a silent no-op.
C4_CommitFetchesWhenNothingStaged ==
    [][(CommitRuns /\ pendingData = NullData
                   /\ pendingLatestInterval = NullInterval) =>
           fetchSeq' > fetchSeq]_vars

\* C5: for each cycle key the scheduler issues the staged fetch at most
\* once, however many times tick() runs within the preload second: no key
\* occurs twice among the calls of loadData(true).
C5_PreloadOncePerKey ==
    \A i, j \in DOMAIN preloadLog : i # j => preloadLog[i] # preloadLog[j]

\* tick() has run twice within the preload second, after the staged fetch of
\* that bucket was issued
C5_Witness ==
    /\ MinuteInInterval(now) = 0
    /\ Seconds(now) = 30
    /\ ticksThisSecond >= 2
    /\ hasPreloadedForInterval = CurrentIntervalKey(now)
    /\ Len(preloadLog) >= 1

\* C6: the clock-driven reveal fires only in a tick that observes
\* minute%10 = 1 and second = 0 with the route on Charts and the initial load
\* over; the tick run at mount never fires it, and a firing sets the countdown
\* to 10 and starts the navigation to /incoming.
C6_RevealGuard ==
    [][reveals' # reveals =>
           /\ MinuteInInterval(now') = 1
           /\ Seconds(now') = 0
           /\ pathname' = "/"
           /\ ~isInitialLoad
           /\ mounted
           /\ reveals' = reveals + 1
           /\ incomingCountdown' = INCOMING_COUNTDOWN_SECONDS
           /\ nav' = "/incoming"]_vars

\* a tick at the reveal second has fired the reveal from Charts
C6_Witness ==
    /\ reveals >= 1
    /\ MinuteInInterval(now) = 1
    /\ Seconds(now) = 0
    /\ pathname = "/"
    /\ nav = "/incoming"

\* the phase the dashboard is in or is navigating to
Phase == IF nav # NoNav THEN nav ELSE pathname

\* countdown decrements left until the dashboard is back on Charts
StepsLeft ==
    IF Phase = "/incoming"
    THEN incomingCountdown + 2 * VIEW_DISPLAY_SECONDS
    ELSE IF Phase = "/interval" THEN viewSecondsRemaining + VIEW_DISPLAY_SECONDS
    ELSE IF Phase = "/cumulative" THEN viewSecondsRemaining
    ELSE 0

Successors ==
    {<<"/", "/incoming">>, <<"/incoming", "/interval">>,
     <<"/interval", "/cumulative">>, <<"/cumulative", "/">>}

\* C7: with no manual refresh, once the reveal fires the phases occur in the
\* order Anticipation, IntervalSummary, CumulativeSummary, Charts: the route
\* only ever changes to the one successor of the current route; the reveal
\* leaves 10 + 30 + 30 = 70 countdown decrements to go, every firing of a
\* one-second countdown timer takes exactly one of them, no other step changes
\* their number, and Charts is the phase exactly when none is left.
C7_CycleOrderAndLength ==
    [][/\ pathname' # pathname => <<pathname, pathname'>> \in Successors
       /\ StepsLeft' = IF reveals' # reveals
                       THEN INCOMING_COUNTDOWN_SECONDS + 2 * VIEW_DISPLAY_SECONDS
                       ELSE IF IncomingTimeout \/ ViewTimeout THEN StepsLeft - 1
                       ELSE StepsLeft
       /\ (StepsLeft' = 0) <=> (Phase' = "/")]_vars

\* a clock-driven cycle is complete 70 seconds after its reveal: the
\* cumulative view has counted down to zero and navigates to Charts
C7_Witness ==
    /\ reveals = 1
    /\ SecondInBucket(now) = 60 + INCOMING_COUNTDOWN_SECONDS + 2 * VIEW_DISPLAY_SECONDS
    /\ pathname = "/cumulative"
    /\ viewSecondsRemaining = 0
    /\ nav = "/"

\* a fetch issued by loadData(true) resolves successfully
StagedFetchResolves ==
    /\ FetchSucceeds
    /\ \E f \in inflight : f.staged /\ inflight' = inflight \ {f}

\* a fetch issued by loadData(true) rejects
StagedFetchFails ==
    /\ FetchFails
    /\ \E f \in inflight : f.staged /\ inflight' = inflight \ {f}

\* C8: a successful staged fetch changes only the staged snapshot: the active
\* data, the active latestInterval and the metric are unchanged, and the page
\* of the current route renders the same before and after it resolves.
C8_StagedSuccessIsInvisible ==
    [][StagedFetchResolves =>
           /\ data' = data
           /\ latestInterval' = latestInterval
           /\ metric' = metric
           /\ Rendered(StNext) = Rendered(St)]_vars

\* C9: a failed staged fetch is swallowed: loadState and error are unchanged
\* and the page of the current route is not replaced by the error screen.
C9_StagedFailureIsSwallowed ==
    [][StagedFetchFails =>
           /\ loadState' = loadState
           /\ error' = error
           /\ Rendered(StNext) = Rendered(St)]_vars

\* C10: a failing fetch, staged or not, modifies neither the active nor the
\* staged snapshot, and the active data changes only when a fetch succeeds or
\* a good staged snapshot is committed.
C10_FailureKeepsSnapshots ==
    [][/\ FetchFails =>
              /\ data' = data
              /\ latestInterval' = latestInterval
              /\ pendingData' = pendingData
              /\ pendingLatestInterval' = pendingLatestInterval
       /\ data' # data =>
              \/ FetchSucceeds
              \/ pendingData # NullData /\ data' = pendingData]_vars

\* a fetch has failed while a good staged snapshot and a good active snapshot
\* were held, and both are still there
C10_Witness ==
    /\ loadState = "error"
    /\ error # NoError
    /\ pendingData # NullData
    /\ pendingLatestInterval # NullInterval
    /\ data # EmptyData
    /\ latestInterval # NullInterval

\* the scheduler's interval fires in the preload second
PreloadTick == Tick /\ MinuteInInterval(now) = 0 /\ Seconds(now) = 30

\* the scheduler's interval fires in the reveal second, the initial load over
RevealTick == Tick /\ MinuteInInterval(now) = 1 /\ Seconds(now) = 0 /\ ~isInitialLoad

\* the number of loadData(true) calls made for interval key k
PreloadsFor(k) == Cardinality({i \in DOMAIN preloadLog : preloadLog[i] = k})

ErrorMessages == {fetchSalesDataThrows(kind) : kind \in FetchFailures}

\* C12: every failure of fetchSalesData() ends in the catch block of
\* loadData and becomes state (loadState 'error', the message in error, the
\* call settled); it leaves the scheduler as it was, and the ticks that
\* follow still act on their boundaries: the tick of a preload second whose
\* interval is not preloaded issues the staged fetch, and the tick of a
\* reveal second on Charts after a successful load fires the reveal, whatever
\* error is recorded.
C12_FailuresBecomeState ==
    [][/\ FetchFails =>
              /\ loadState' = "error"
              /\ error' \in ErrorMessages
              /\ Cardinality(inflight') = Cardinality(inflight) - 1
              /\ fetchSeq' = fetchSeq
              /\ mounted'
              /\ tickDue' = tickDue
              /\ hasPreloadedForInterval' = hasPreloadedForInterval
              /\ isInitialLoad' = isInitialLoad
       /\ (PreloadTick /\ hasPreloadedForInterval # CurrentIntervalKey(now)) =>
              /\ fetchSeq' = fetchSeq + 1
              /\ [id |-> fetchSeq', staged |-> TRUE] \in inflight'
              /\ PreloadsFor(CurrentIntervalKey(now))' = 1
       /\ (RevealTick /\ pathname = "/") => reveals' = reveals + 1]_vars

\* the initial load and the first staged fetch have both failed, and the
\* tick of the next preload second has issued the staged fetch of its interval
C12_Witness ==
    /\ now = FirstBoundary + 630
    /\ isInitialLoad
    /\ error \in ErrorMessages
    /\ fetchSeq = 3
    /\ inflight = {[id |-> 3, staged |-> TRUE]}
    /\ Len(preloadLog) = 2

\* C13: with no retry by the user, once every fetch issued so far has failed
\* (the initial load among them) the dashboard starts no fetch and stays in
\* the error state.
C13_NoFetchWithoutRetry ==
    [][(loadState = "error" /\ isInitialLoad /\ inflight = {}) =>
           /\ fetchSeq' = fetchSeq
           /\ loadState' = "error"]_vars

\* C14: in the first state in which a timed route is shown its countdown
\* has the constant of its phase: 10 on /incoming, 30 on /interval and on
\* /cumulative.
C14_EntryResetsCountdown ==
    [][pathname' # pathname =>
           /\ pathname' = "/incoming" =>
                  incomingCountdown' = INCOMING_COUNTDOWN_SECONDS
           /\ pathname' \in {"/interval", "/cumulative"} =>
                  viewSecondsRemaining' = VIEW_DISPLAY_SECONDS]_vars

\* C15: while a timed route stays shown, a countdown timer that has come
\* due is neither cancelled nor restarted before it has applied its
\* decrement: every elapsed second takes exactly one off the countdown.
C15_OneDecrementPerSecond ==
    [][/\ (incomingTimer = "due" /\ pathname = "/incoming" /\ pathname' = pathname) =>
              \/ incomingTimer' = "due"
              \/ incomingCountdown' = incomingCountdown - 1
       /\ (viewTimer = "due" /\ pathname \in {"/interval", "/cumulative"}
                            /\ pathname' = pathname) =>
              \/ viewTimer' = "due"
              \/ viewSecondsRemaining' = viewSecondsRemaining - 1]_vars

\* C16: whenever the readouts are computed, both lie in [0, 600).
C16_ReadoutBelow600 ==
    readout.at >= 0 =>
        /\ readout.secondsUntilNextUpdate \in 0..599
        /\ readout.secondsUntilNextInterval \in 0..599

\* an instant with minute%10 = 1 and second = 0
IsRevealBoundary(t) == MinuteInInterval(t) = 1 /\ Seconds(t) = 0

\* C17: now plus the readout is the next instant after now with
\* minute%10 = 1 and second = 0; from one second to the next the readout
\* decreases by exactly 1, except that in the second of the reveal boundary
\* it is back at its maximum, 600.
C17_ReadoutCountsDown ==
    [][ReadClock =>
           /\ readout'.secondsUntilNextUpdate \in 1..600
           /\ IsRevealBoundary(now + readout'.secondsUntilNextUpdate)
           /\ \A u \in (now + 1)..(now + readout'.secondsUntilNextUpdate - 1) :
                  ~IsRevealBoundary(u)
           /\ readout.at = now - 1 =>
                  readout'.secondsUntilNextUpdate =
                      IF IsRevealBoundary(now) THEN 600
                      ELSE readout.secondsUntilNextUpdate - 1]_vars

\* the readout was computed in the second of a reveal boundary, after having
\* been computed in the second before
C17_Witness ==
    /\ readout.at = HMS(17, 51, 0)
    /\ now = readout.at
    /\ readout.secondsUntilNextUpdate = 600

\* C18: the cycle key computed in one second equals the key computed in the
\* second before exactly when both seconds lie in the same ten-minute
\* bucket: the key is constant within a bucket and changes at every bucket
\* boundary, the hour boundary and midnight included.
C18_KeyPerBucket ==
    [][(ReadClock /\ readout.at = now - 1) =>
           ((readout'.key = readout.key) <=> (now \div 600 = (now - 1) \div 600))]_vars

\* the key was computed in the first second of an hour, after having been
\* computed in the last second of the hour before
C18_Witness ==
    /\ readout.at = HMS(18, 0, 0)
    /\ readout.key = <<18, 0>>

\* the start of the ten-minute bucket that holds t
BucketStart(t) == t - (t % 600)

\* C19: both helpers return the start of the bucket that holds now, which
\* is the end of the most recently completed bucket.
C19_CutoffIsBucketStart ==
    readout.at >= 0 =>
        /\ readout.cutoff = BucketStart(readout.at)
        /\ readout.serverCutoff = BucketStart(readout.at)

\* C20: in the first bucket of an hour both helpers return minute 50 of the
\* hour before.
C20_CutoffRollsBackAnHour ==
    (readout.at >= 0 /\ IntervalStart(readout.at) = 0) =>
        /\ readout.cutoff = BucketStart(readout.at) - 600
        /\ readout.serverCutoff = BucketStart(readout.at) - 600

\* C21: whenever a cutoff is computed, by either helper, its seconds are 0,
\* its minute is a multiple of 10 and it is not later than the instant it was
\* computed at, in the first ten minutes of an hour and of a day as well.
C21_CutoffAligned ==
    readout.at >= 0 =>
        /\ Seconds(readout.cutoff) = 0
        /\ Minutes(readout.cutoff) % 10 = 0
        /\ readout.cutoff <= readout.at
        /\ Seconds(readout.serverCutoff) = 0
        /\ Minutes(readout.serverCutoff) % 10 = 0
        /\ readout.serverCutoff <= readout.at

\* the cutoffs were computed seven seconds after midnight: the cutoff of
\* lib/data.ts lies in the day before
C21_Witness ==
    /\ readout.at = HMS(24, 0, 7)
    /\ readout.cutoff = HMS(23, 50, 0)
    /\ readout.serverCutoff = HMS(24, 0, 0)

\* the cumulative view expires with a staged snapshot present: the view
\* timer effect calls commitPendingData()
CommitOfStaged ==
    /\ ViewTimeout
    /\ pathname = "/cumulative"
    /\ viewSecondsRemaining' <= 0
    /\ pendingData # NullData

\* C22: the commit of a staged snapshot makes the active data and the active
\* latestInterval those of the staged snapshot, a null interval summary
\* included, and empties the staged cells.
C22_CommitCopiesStaged ==
    [][CommitOfStaged =>
           /\ data' = pendingData
           /\ latestInterval' = pendingLatestInterval
           /\ pendingData' = NullData
           /\ pendingLatestInterval' = NullInterval]_vars

\* C23: in every state a second call of commitPendingData() right after a
\* first one changes nothing more, with or without a staged snapshot, and
\* the two calls together issue at most one fetch.
C23_CommitIdempotent ==
    /\ commitPendingData(commitPendingData(St)) = commitPendingData(St)
    /\ commitPendingData(commitPendingData(St)).fetchSeq <= fetchSeq + 1

\* the cumulative view has just expired: its effect committed the snapshot
\* staged by the preload and, re-run because the staged cells changed,
\* called commitPendingData() once more
C23_Witness ==
    /\ now = FirstBoundary + 130
    /\ pathname = "/cumulative"
    /\ viewSecondsRemaining = 0
    /\ nav = "/"
    /\ fetchSeq = 2
    /\ data.id = 2
    /\ pendingData = NullData
    /\ pendingLatestInterval = NullInterval

\* C24: the route does not change from /incoming to /interval while a
\* staged fetch is in flight.
C24_NoAdvanceWhileFetching ==
    [][(pathname = "/incoming" /\ pathname' = "/interval") =>
           \A f \in inflight' : ~f.staged]_vars

\* the reveal boundary of the second bucket
SecondReveal == FirstBoundary + 600 + 60

\* C25: a snapshot that is staged before a reveal boundary, however late
\* its fetch resolved, does not stay staged: the staged cells are eventually
\* emptied by the commit of a later cycle, the snapshot having been committed
\* or replaced by a newer staged one.
C25_StagedIsEventuallyCommitted ==
    (pendingData # NullData /\ now < SecondReveal) ~> (pendingData = NullData)

\* the staged fetch of the first bucket resolved after the reveal cycle of
\* that bucket had ended: the dashboard is back on Charts with the snapshot
\* staged
C25_Witness ==
    /\ reveals = 1
    /\ pathname = "/"
    /\ nav = NoNav
    /\ SecondInBucket(now) > 130
    /\ now < FirstBoundary + 600
    /\ pendingData.id = 2
    /\ data.id = 1

\* C26: in a build whose DEV_FORCE_VIEW names a route, the only route ever
\* navigated to is that route and it is never left; the scheduler's interval
\* and the countdown timers do not exist, so no staged fetch is issued, no
\* reveal fires and no countdown changes; triggerRefresh() changes nothing.
C26_ForcedViewIsPermanent ==
    [][/\ nav' \in {NoNav, DEV_FORCE_VIEW}
       /\ pathname' # pathname => pathname' = DEV_FORCE_VIEW
       /\ ~tickDue'
       /\ incomingTimer' = "none"
       /\ viewTimer' = "none"
       /\ \A f \in inflight' : ~f.staged
       /\ preloadLog' = <<>>
       /\ reveals' = 0
       /\ incomingCountdown' = incomingCountdown
       /\ viewSecondsRemaining' = viewSecondsRemaining
       /\ TriggerRefresh => UNCHANGED vars]_vars

\* forced to the cumulative view: five seconds after the reveal boundary, at
\* an instant where Refresh can be pressed, the view is shown with its
\* countdown untouched
C26_Witness ==
    /\ DEV_FORCE_VIEW = "/cumulative"
    /\ pathname = "/cumulative"
    /\ mounted
    /\ now = FirstBoundary + 65
    /\ viewSecondsRemaining = VIEW_DISPLAY_SECONDS
    /\ ~isInitialLoad

\* C27: once no further manual refresh is invoked, every state in which a
\* timed route is shown is followed by a state in which Charts is shown,
\* whether the fetches succeed, fail or never settle.
C27_TimedPhasesEnd ==
    (pathname \in TimedRoutes) ~> (pathname = "/")

\* a flow started by Retry while every fetch has failed: the interval view
\* is shown with no data loaded and the error recorded
C27_Witness ==
    /\ pathname = "/interval"
    /\ reveals = 0
    /\ loadState = "error"
    /\ inflight = {}
    /\ data = EmptyData
    /\ latestInterval = NullInterval

\* C28: a manual refresh on Charts leaves the dashboard in exactly the
\* state the display trigger of the scheduler would have left it in: the
\* anticipation countdown at 10, the navigation to /incoming started, and
\* every other cell and ref (the preloaded key, the staged snapshot, the
\* initial-load flag among them) as it was.
C28_RefreshEqualsReveal ==
    [][(TriggerRefresh /\ pathname = "/") =>
           StNext = Settle(St, [RevealTrigger(St) EXCEPT !.reveals = reveals])]_vars

\* Refresh was pressed on Charts fifty seconds into the bucket, with a
\* snapshot staged: the navigation to /incoming is under way
C28_Witness ==
    /\ SecondInBucket(now) = 50
    /\ pathname = "/"
    /\ nav = "/incoming"
    /\ incomingCountdown = INCOMING_COUNTDOWN_SECONDS
    /\ reveals = 0
    /\ pendingData # NullData

\* C29: pressing Retry on the error screen issues a new fetch.
C29_RetryFetches ==
    [][(TriggerRefresh /\ pathname = "/" /\ loadState = "error") =>
           fetchSeq' = fetchSeq + 1]_vars

\* C30: when the route changes from /interval to /cumulative, the
\* cumulative page shows the interval summary the interval page was showing.
C30_SameSummaryInBothViews ==
    [][(pathname = "/interval" /\ pathname' = "/cumulative") =>
           CumulativeView(StNext).interval = IntervalView(St).interval]_vars

\* C31: every clock-driven reveal is preceded by the staged fetch of its
\* bucket: when the tick of hh:m1:00 starts the Charts -> Anticipation
\* transition, loadData(true) has been called for that bucket's cycle key.
\* (A dashboard mounted at one of StartTimes is running at second 30 of every
\* bucket in which it reveals.)
C31_PreloadPrecedesReveal ==
    [][reveals' = reveals + 1 =>
           PreloadsFor(CurrentIntervalKey(now')) >= 1]_vars

\* the number of reveal seconds (hh:m1:00) from the first boundary up to t
RevealSecondsUpTo(t) ==
    IF t < FirstBoundary + 60 THEN 0 ELSE (t - FirstBoundary - 60) \div 600 + 1

\* C32: with no manual refresh and the initial load over, the 70-second
\* cycle is finished before the next reveal second, so the phase is Charts
\* when a reveal second begins, no bucket gets more than one reveal, and a
\* dashboard that has revealed before (so its initial load is over) is in
\* Anticipation for the bucket of 14:10 when second 14:11:00 is over.
C32_OneRevealPerBucket ==
    /\ (SecondInBucket(now) = 60 /\ tickDue /\ ~isInitialLoad) => Phase = "/"
    /\ reveals <= RevealSecondsUpTo(now)
    /\ (now = SecondReveal + 1 /\ reveals >= 1) => pathname = "/incoming"

\* C33: fetches that are in flight together may resolve in any order, and
\* neither slot goes back in time: once the result of a fetch is in the active
\* snapshot (or in the staged one), no step puts the result of a fetch issued
\* earlier into that same slot.
C33_SlotsNeverGoBack ==
    [][/\ data'.id >= data.id
       /\ (pendingData # NullData /\ pendingData' # NullData) =>
              pendingData'.id >= pendingData.id]_vars

\* C34: every bucket boundary that passes while the scheduler is running is
\* followed by exactly one staged fetch, also when a tick is late and no
\* tick() executes inside the preload second: once second 30 of the bucket of
\* 14:10 is over, loadData(true) has been called exactly once for its key.
C34_OnePreloadPerBoundary ==
    (mounted /\ now > FirstBoundary + 600 + 30) =>
        PreloadsFor(CurrentIntervalKey(now)) = 1

\* the number of times the view timer effect runs its expired /cumulative
\* branch (commitPendingData(); router.push('/')) in the renders that follow
\* a change of the state from prev to cur
RECURSIVE ExpiryRuns(_, _)
ExpiryRuns(prev, cur) ==
    IF ~IncomingDepsChanged(prev, cur) /\ ~ViewDepsChanged(prev, cur)
    THEN 0
    ELSE (IF /\ ViewDepsChanged(prev, cur)
             /\ DEV_FORCE_VIEW = NoForce
             /\ cur.pathname = "/cumulative"
             /\ cur.viewSecondsRemaining <= 0
          THEN 1 ELSE 0)
         + ExpiryRuns(cur, EffectsPass(prev, cur, FALSE))

\* C35: the expiry handler of the cumulative view takes effect once per
\* cycle: the timer callback that brings the countdown to 0 makes the effect
\* run commitPendingData() and router.push('/') once, and while that
\* navigation is pending no staged fetch that resolves is committed.
C35_ExpiryHandlerRunsOnce ==
    [][/\ (ViewTimeout /\ pathname = "/cumulative") =>
              ExpiryRuns(St, [St EXCEPT !.viewSecondsRemaining = @ - 1,
                                        !.viewTimer = "none"]) <= 1
       /\ (StagedFetchResolves /\ pathname = "/cumulative"
                               /\ viewSecondsRemaining = 0) =>
              data' = data]_vars

\* C36: every showing of the overlay, the first and the later ones, runs the
\* full countdown before hide() is called: each call of hide() comes after
\* COUNTDOWN_SECONDS timer callbacks of that showing.
C36_EveryShowingCountsDown ==
    \A i \in DOMAIN overlay.hideLog : overlay.hideLog[i] = COUNTDOWN_SECONDS

\* C37: the data activated when the overlay hides is the most recently
\* preloaded response, also when the preload resolved during the countdown.
C37_HideActivatesLatestPreload ==
    [][(Len(overlay'.hideLog) > Len(overlay.hideLog)
            /\ overlay'.preloadedData # NullResponse) =>
           overlay'.data = overlay'.preloadedData]_vars

\* the number of entries of log that equal k
Occurrences(log, k) == Cardinality({i \in DOMAIN log : log[i] = k})

\* C38: for any interleaving of requests, at most one BigQuery query is
\* issued per interval cache key unless a query fails: the queries started
\* for a key number at most one more than the queries that failed for it.
C38_OneQueryPerKey ==
    \A i \in DOMAIN server.queries :
        Occurrences(server.queries, server.queries[i])
            <= 1 + Occurrences(server.failures, server.queries[i])

\* the sum of the metric column over a set of rows
RECURSIVE SumMetric(_)
SumMetric(rows) ==
    IF rows = {} THEN 0
    ELSE LET r == CHOOSE x \in rows : TRUE
         IN  MetricColumn(r) + SumMetric(rows \ {r})

\* the points of a line whose label is that of timestamp ts
PointsAt(line, ts) == {i \in DOMAIN line : line[i].x = formatTime(ts)}

\* C39: in what transformData returns, for every branch: a timestamp later
\* than the cutoff has this-year bar value 0 and no point on the this-year
\* cumulative line; every timestamp has a bar and a point on the last-year
\* line; and the this-year line has, in order of time, one point for each
\* timestamp up to and including the cutoff, whose value is the (rounded)
\* sum of the this-year values of the timestamps up to that one.
C39_TransformRespectsCutoff ==
    chart.called =>
        \A res \in chart.results :
            LET mine == {r \in chart.rows : r.branch = res.branch}
                tss == {r.ts : r \in mine}
                cutoff == getIntervalCutoffTimeServer(now)
                settled == {ts \in tss : ts <= cutoff}
            IN  /\ \A ts \in tss \ settled :
                       /\ \A i \in DOMAIN res.barData :
                              res.barData[i].time = formatTime(ts) =>
                                  res.barData[i].thisYear = 0
                       /\ PointsAt(res.thisYearLine, ts) = {}
                /\ \A ts \in tss :
                       /\ \E i \in DOMAIN res.barData :
                              res.barData[i].time = formatTime(ts)
                       /\ Cardinality(PointsAt(res.lastYearLine, ts)) = 1
                /\ Len(res.thisYearLine) = Cardinality(settled)
                /\ \A ts \in settled :
                       \E i \in PointsAt(res.thisYearLine, ts) :
                           /\ i = Cardinality({u \in settled : u <= ts})
                           /\ res.thisYearLine[i].y =
                                  MathRound(SumMetric({r \in mine :
                                                r.year = 0 /\ r.ts <= ts}))

\* transformData has been called just after 14:10 on rows in which cdon has
\* this-year sales in all three buckets: two are settled, the bucket that
\* ends at 14:20 is still accumulating
C39_Witness ==
    /\ chart.called
    /\ now = HMS(14, 10, 0)
    /\ \E res \in chart.results :
           /\ res.branch = "cdon"
           /\ Len(res.barData) = 3
           /\ Len(res.thisYearLine) = 2
           /\ res.thisYearLine[2].y = 3
           /\ \E r \in chart.rows :
                  r.branch = "cdon" /\ r.year = 0 /\ r.ts = HMS(14, 20, 0)

====
